---- MODULE Spec2Model ----
(***************************************************************************)
(* A model of the Planner engine of study_planner.py: the Task record, the *)
(* Planner object (tasks, completed, next_id, xp, level, achievements),    *)
(* its JSON persistence in DATA_FILE and its operations.                   *)
(*                                                                         *)
(* Python values are modelled as follows.                                  *)
(*   - a dict is the sequence of its [k, v] entries in insertion order;    *)
(*   - an optional value is a tuple: None is <<>>; a due date string       *)
(*     'YYYY-MM-DD' is <<y, m, d>>; an isoformat() timestamp is <<tick>>;  *)
(*   - the keyword arguments of edit_task are a function from the keys     *)
(*     passed to <<>> (None) or <<value>>;                                 *)
(*   - a JSON object key is the decimal string of the dict's int key.      *)
(***************************************************************************)
EXTENDS Integers, Sequences, FiniteSets, TLC

XP_PER_TASK == 20
XP_TO_LEVEL == 100

\* Bounds of the exploration.
MaxAdds == 2        \* add_task calls per session
MaxEdits == 1       \* successful edit_task calls per session
MaxListed == 3      \* add_task calls of a session that lists its tasks

None == <<>>

\* ------------------------------------------------------------------ dict

Keys(d) == {d[i].k : i \in 1..Len(d)}

Get(d, key) == d[CHOOSE i \in 1..Len(d) : d[i].k = key].v

\* d[key] = value: a new key goes last, an existing key keeps its place.
Put(d, key, value) ==
    IF key \in Keys(d)
    THEN [i \in 1..Len(d) |-> IF d[i].k = key THEN [k |-> key, v |-> value] ELSE d[i]]
    ELSE Append(d, [k |-> key, v |-> value])

Pop(d, key) == SelectSeq(d, LAMBDA e : e.k # key)

\* ------------------------------------------------------------------ Task

\* Task.__init__: id None is modelled as 0 until the Planner assigns it.
Task(title, category, due_date, priority, notes, now) ==
    [id |-> 0, title |-> title, category |-> category, due_date |-> due_date,
     priority |-> priority, notes |-> notes, created_at |-> now,
     completed_at |-> None]

to_dict(t) ==
    [id |-> t.id, title |-> t.title, category |-> t.category,
     due_date |-> t.due_date, priority |-> t.priority, notes |-> t.notes,
     created_at |-> t.created_at, completed_at |-> t.completed_at]

\* Task.from_dict: a new Task (stamped now), then id, created_at and
\* completed_at taken from the record.
from_dict(d, now) ==
    [Task(d.title, d.category, d.due_date, d.priority, d.notes, now)
        EXCEPT !.id = d.id, !.created_at = d.created_at,
               !.completed_at = d.completed_at]

\* ------------------------------------------------------------------ JSON

\* str(k) of an int dict key, as json.dump writes it.
KeyStr(k) == ToString(k)

\* int(s) of a JSON object key.
KeyInt(s, bound) == CHOOSE i \in 0..bound : ToString(i) = s

AchievementNames ==
    <<"First Task Done", "Getting Serious", "Study Machine",
      "Legendary Studier", "Level 2 Achieved", "Level 5 Achieved">>

\* list(self.achievements): the names in the set, in one iteration order.
SetToList(s) == SelectSeq(AchievementNames, LAMBDA a : a \in s)

\* set(data["achievements"])
ListToSet(l) == {l[i] : i \in 1..Len(l)}

DumpTasks(d) == [i \in 1..Len(d) |-> [k |-> KeyStr(d[i].k), v |-> to_dict(d[i].v)]]

\* The data dict built by save().
Data(self) ==
    [next_id |-> self.next_id, xp |-> self.xp, level |-> self.level,
     achievements |-> SetToList(self.achievements),
     tasks |-> DumpTasks(self.tasks),
     completed |-> DumpTasks(self.completed)]

\* ---------------------------------------------------------------- Planner

\* The fields as Planner.__init__ sets them before load().
NewPlanner ==
    [tasks |-> <<>>, completed |-> <<>>, next_id |-> 1, xp |-> 0, level |-> 1,
     achievements |-> {}]

\* DATA_FILE: missing, a JSON document, or content json.load rejects.
MissingFile == [kind |-> "missing", data |-> Data(NewPlanner)]

\* save(): the file is overwritten with the whole state.
save(self) == [kind |-> "json", data |-> Data(self)]

\* Every operation returns the Planner after it, the file after it and the
\* value handed back to the caller, as a tuple.
Result(self, file, value) == [self |-> self, file |-> file, ret |-> value]

_create_default_file(self) ==
    Result(NewPlanner, save(NewPlanner), None)

\* The dict comprehension of load() with the ids restored from the keys.
LoadTasks(d, bound, now) ==
    [i \in 1..Len(d) |->
        [k |-> KeyInt(d[i].k, bound),
         v |-> [from_dict(d[i].v, now) EXCEPT !.id = KeyInt(d[i].k, bound)]]]

\* The try block of load() with the level left at its default.
Parse_default_level(data, now) ==
    [next_id |-> data.next_id, xp |-> data.xp, level |-> 1,
     achievements |-> ListToSet(data.achievements),
     tasks |-> LoadTasks(data.tasks, data.next_id, now),
     completed |-> LoadTasks(data.completed, data.next_id, now)]

\* The try block of load() on a document json.load accepts.
Parse(data, now) ==
    [next_id |-> data.next_id, xp |-> data.xp, level |-> data.level,
     achievements |-> ListToSet(data.achievements),
     tasks |-> LoadTasks(data.tasks, data.next_id, now),
     completed |-> LoadTasks(data.completed, data.next_id, now)]

\* load() whose except branch prints the message and leaves the fields alone.
load_keep_fields(self, file, now) ==
    LET made == IF file.kind = "missing" THEN _create_default_file(self)
                ELSE Result(self, file, None)
    IN  IF made.file.kind = "json"
        THEN Result(Parse(made.file.data, now), made.file, None)
        ELSE Result(made.self, made.file, None)

load(self, file, now) ==
    LET made == IF file.kind = "missing" THEN _create_default_file(self)
                ELSE Result(self, file, None)
    IN  IF made.file.kind = "json"
        THEN Result(Parse(made.file.data, now), made.file, None)
        ELSE _create_default_file(made.self)

\* add_task with the id taken from the number of tasks held.
add_task_count(self, file, title, category, due_date, priority, notes, now) ==
    LET t == [Task(title, category, due_date, priority, notes, now)
                 EXCEPT !.id = Len(self.tasks) + Len(self.completed) + 1]
        after == [self EXCEPT !.tasks = Put(self.tasks, t.id, t),
                              !.next_id = t.id + 1]
    IN  Result(after, save(after), <<t.id>>)

\* add_task without the call of save().
add_task_unsaved(self, file, title, category, due_date, priority, notes, now) ==
    LET t == [Task(title, category, due_date, priority, notes, now)
                 EXCEPT !.id = self.next_id]
        after == [self EXCEPT !.tasks = Put(self.tasks, self.next_id, t),
                              !.next_id = self.next_id + 1]
    IN  Result(after, file, <<t.id>>)

add_task(self, file, title, category, due_date, priority, notes, now) ==
    LET t == [Task(title, category, due_date, priority, notes, now)
                 EXCEPT !.id = self.next_id]
        after == [self EXCEPT !.tasks = Put(self.tasks, self.next_id, t),
                              !.next_id = self.next_id + 1]
    IN  Result(after, save(after), <<t.id>>)

\* items.sort(key=...): the stable sort of items by the integer keys ks.
Rank(ks, i) ==
    Cardinality({j \in 1..Len(ks) : ks[j] < ks[i] \/ (ks[j] = ks[i] /\ j <= i)})

SortByKeys(items, ks) ==
    [r \in 1..Len(items) |-> items[CHOOSE i \in 1..Len(items) : Rank(ks, i) = r]]

\* datetime.datetime.fromisoformat(d) of a date string, as a number that
\* orders as the datetimes do: midnight of the day.
fromisoformat(d) == 2 * (d[1] * 10000 + d[2] * 100 + d[3])

\* datetime.datetime.max, the last microsecond of 9999-12-31.
datetime_max == fromisoformat(<<9999, 12, 31>>) + 1

\* due_key with a missing date taken as the earliest one.
due_key_none_first(pair) ==
    IF pair.v.due_date # None THEN fromisoformat(pair.v.due_date) ELSE 0

due_key(pair) ==
    IF pair.v.due_date # None THEN fromisoformat(pair.v.due_date) ELSE datetime_max

priority_key(pair) == pair.v.priority

id_key(pair) == pair.k

view_tasks(self, file, show_completed, sort_by) ==
    LET items == IF show_completed THEN self.completed ELSE self.tasks
        sorted ==
            IF sort_by = "priority"
            THEN SortByKeys(items, [i \in 1..Len(items) |-> priority_key(items[i])])
            ELSE IF sort_by = "due"
            THEN SortByKeys(items, [i \in 1..Len(items) |-> due_key(items[i])])
            ELSE SortByKeys(items, [i \in 1..Len(items) |-> id_key(items[i])])
    IN  Result(self, file, IF items = <<>> THEN <<>> ELSE sorted)

\* self.tasks.get(task_id) or self.completed.get(task_id): <<task>> or None.
Lookup(self, task_id) ==
    IF task_id \in Keys(self.tasks) THEN <<Get(self.tasks, task_id)>>
    ELSE IF task_id \in Keys(self.completed) THEN <<Get(self.completed, task_id)>>
    ELSE None

get_task(self, file, task_id) == Result(self, file, Lookup(self, task_id))

\* The characters of the strings that are titles, notes, categories and
\* keywords here.
Chars(s) ==
    CASE s = "" -> <<>>
      [] s = "General" -> <<"G", "e", "n", "e", "r", "a", "l">>
      [] s = "Study" -> <<"S", "t", "u", "d", "y">>
      [] s = "stud" -> <<"s", "t", "u", "d">>
      [] s = "ERA" -> <<"E", "R", "A">>
      [] OTHER -> <<s>>

\* str.lower(), character by character.
LowerChar(c) ==
    CASE c = "A" -> "a"
      [] c = "E" -> "e"
      [] c = "G" -> "g"
      [] c = "M" -> "m"
      [] c = "R" -> "r"
      [] c = "S" -> "s"
      [] OTHER -> c

lower(s) == [i \in 1..Len(Chars(s)) |-> LowerChar(Chars(s)[i])]

\* keyword in text, on the characters of both.
In(keyword, text) ==
    \E i \in 0..(Len(text) - Len(keyword)) :
        SubSeq(text, i + 1, i + Len(keyword)) = keyword

search_tasks(self, file, keyword) ==
    LET kw == lower(keyword)
        hit(e) == \/ In(kw, lower(e.v.title))
                  \/ In(kw, lower(e.v.notes))
                  \/ In(kw, lower(e.v.category))
    IN  Result(self, file, SelectSeq(self.tasks, hit) \o SelectSeq(self.completed, hit))

\* delete_task that takes back the XP of a completed task it removes.
delete_task_refund(self, file, task_id) ==
    LET removed == IF task_id \in Keys(self.tasks)
                   THEN <<Get(self.tasks, task_id)>>
                   ELSE IF task_id \in Keys(self.completed)
                   THEN <<Get(self.completed, task_id)>>
                   ELSE None
        after == IF task_id \in Keys(self.tasks)
                 THEN [self EXCEPT !.tasks = Pop(self.tasks, task_id)]
                 ELSE IF task_id \in Keys(self.completed)
                 THEN [self EXCEPT !.completed = Pop(self.completed, task_id),
                                   !.xp = self.xp - XP_PER_TASK]
                 ELSE self
    IN  Result(after, save(after), removed)

\* delete_task without the elif: only self.tasks is looked at.
delete_task_pending_only(self, file, task_id) ==
    LET removed == IF task_id \in Keys(self.tasks)
                   THEN <<Get(self.tasks, task_id)>>
                   ELSE None
        after == IF task_id \in Keys(self.tasks)
                 THEN [self EXCEPT !.tasks = Pop(self.tasks, task_id)]
                 ELSE self
    IN  Result(after, save(after), removed)

delete_task(self, file, task_id) ==
    LET removed == IF task_id \in Keys(self.tasks)
                   THEN <<Get(self.tasks, task_id)>>
                   ELSE IF task_id \in Keys(self.completed)
                   THEN <<Get(self.completed, task_id)>>
                   ELSE None
        after == IF task_id \in Keys(self.tasks)
                 THEN [self EXCEPT !.tasks = Pop(self.tasks, task_id)]
                 ELSE IF task_id \in Keys(self.completed)
                 THEN [self EXCEPT !.completed = Pop(self.completed, task_id)]
                 ELSE self
    IN  Result(after, save(after), removed)

\* hasattr(t, k): the data attributes of a Task.
hasattr(t, k) == k \in DOMAIN t

\* The loop of edit_task: setattr(t, k, v) for each key that is an attribute
\* of the task and whose value is not None.
SetAttrs(t, kwargs) ==
    [f \in DOMAIN t |->
        IF f \in DOMAIN kwargs /\ hasattr(t, f) /\ kwargs[f] # None
        THEN kwargs[f][1] ELSE t[f]]

\* edit_task that stores the edited task in self.tasks wherever it was found.
edit_task_into_pending(self, file, task_id, kwargs) ==
    LET found == Lookup(self, task_id)
        t == SetAttrs(found[1], kwargs)
        after == [self EXCEPT !.tasks = Put(self.tasks, task_id, t)]
    IN  IF found = None THEN Result(self, file, <<FALSE>>)
        ELSE Result(after, save(after), <<TRUE>>)

edit_task(self, file, task_id, kwargs) ==
    LET found == Lookup(self, task_id)
        t == SetAttrs(found[1], kwargs)
        \* the Task object is changed in place, in the dict that holds it
        after == IF task_id \in Keys(self.tasks)
                 THEN [self EXCEPT !.tasks = Put(self.tasks, task_id, t)]
                 ELSE [self EXCEPT !.completed = Put(self.completed, task_id, t)]
    IN  IF found = None THEN Result(self, file, <<FALSE>>)
        ELSE Result(after, save(after), <<TRUE>>)

milestones ==
    {<<1, "First Task Done">>, <<5, "Getting Serious">>,
     <<10, "Study Machine">>, <<25, "Legendary Studier">>}

\* The check with > for >=.
check_achievements_strict(self) ==
    LET completed_count == Len(self.completed)
        byCount == {m[2] : m \in {x \in milestones : completed_count > x[1]}}
        byLevel == (IF self.level >= 2 THEN {"Level 2 Achieved"} ELSE {})
                   \cup (IF self.level >= 5 THEN {"Level 5 Achieved"} ELSE {})
    IN  [self EXCEPT !.achievements = self.achievements \cup byCount \cup byLevel]

\* The check counting self.tasks for self.completed.
check_achievements_pending(self) ==
    LET completed_count == Len(self.tasks)
        byCount == {m[2] : m \in {x \in milestones : completed_count >= x[1]}}
        byLevel == (IF self.level >= 2 THEN {"Level 2 Achieved"} ELSE {})
                   \cup (IF self.level >= 5 THEN {"Level 5 Achieved"} ELSE {})
    IN  [self EXCEPT !.achievements = self.achievements \cup byCount \cup byLevel]

_check_achievements_on_completion(self) ==
    LET completed_count == Len(self.completed)
        byCount == {m[2] : m \in {x \in milestones : completed_count >= x[1]}}
        byLevel == (IF self.level >= 2 THEN {"Level 2 Achieved"} ELSE {})
                   \cup (IF self.level >= 5 THEN {"Level 5 Achieved"} ELSE {})
    IN  [self EXCEPT !.achievements = self.achievements \cup byCount \cup byLevel]

NotFoundMsg == "Task not found or already completed."

\* The move without the pop: the task stays in self.tasks.
MoveToCompleted_keep(self, task_id, now) ==
    LET t == [Get(self.tasks, task_id) EXCEPT !.completed_at = now]
    IN  [self EXCEPT !.completed = Put(self.completed, task_id, t)]

\* t = self.tasks.pop(task_id); t.completed_at = now; self.completed[task_id] = t
MoveToCompleted(self, task_id, now) ==
    LET t == [Get(self.tasks, task_id) EXCEPT !.completed_at = now]
    IN  [self EXCEPT !.tasks = Pop(self.tasks, task_id),
                     !.completed = Put(self.completed, task_id, t)]

\* The award without the assignment to self.level.
Award_stale_level(self) ==
    LET gained == XP_PER_TASK
        prev_xp == self.xp
        xp == self.xp + gained
        leveled_up == (xp \div XP_TO_LEVEL) + 1 > self.level
    IN  [self |-> [self EXCEPT !.xp = xp],
         info |-> [gained |-> gained, leveled_up |-> leveled_up, prev_xp |-> prev_xp]]

\* The award with prev_xp read after the XP was credited.
Award_prev_after(self) ==
    LET gained == XP_PER_TASK
        xp == self.xp + gained
        prev_xp == xp
        leveled_up == (xp \div XP_TO_LEVEL) + 1 > self.level
        level == IF leveled_up THEN (xp \div XP_TO_LEVEL) + 1 ELSE self.level
    IN  [self |-> [self EXCEPT !.xp = xp, !.level = level],
         info |-> [gained |-> gained, leveled_up |-> leveled_up, prev_xp |-> prev_xp]]

\* The XP award and the level recomputation of complete_task, with the
\* dict it returns.
Award(self) ==
    LET gained == XP_PER_TASK
        prev_xp == self.xp
        xp == self.xp + gained
        leveled_up == (xp \div XP_TO_LEVEL) + 1 > self.level
        level == IF leveled_up THEN (xp \div XP_TO_LEVEL) + 1 ELSE self.level
    IN  [self |-> [self EXCEPT !.xp = xp, !.level = level],
         info |-> [gained |-> gained, leveled_up |-> leveled_up, prev_xp |-> prev_xp]]

\* complete_task with the XP credited before the id is looked up.
complete_task_award_first(self, file, task_id, now) ==
    LET awarded == Award(self)
        moved == MoveToCompleted(awarded.self, task_id, now)
        after == _check_achievements_on_completion(moved)
    IN  IF task_id \notin Keys(self.tasks)
        THEN Result(awarded.self, file, <<FALSE, NotFoundMsg>>)
        ELSE Result(after, save(after), <<TRUE, awarded.info>>)

\* complete_task with the achievements checked before the XP is credited
\* and the level recomputed.
complete_task_check_first(self, file, task_id, now) ==
    LET moved == MoveToCompleted(self, task_id, now)
        checked == _check_achievements_on_completion(moved)
        awarded == Award(checked)
        after == awarded.self
    IN  IF task_id \notin Keys(self.tasks)
        THEN Result(self, file, <<FALSE, NotFoundMsg>>)
        ELSE Result(after, save(after), <<TRUE, awarded.info>>)

complete_task(self, file, task_id, now) ==
    LET moved == MoveToCompleted(self, task_id, now)
        awarded == Award(moved)
        after == _check_achievements_on_completion(awarded.self)
    IN  IF task_id \notin Keys(self.tasks)
        THEN Result(self, file, <<FALSE, NotFoundMsg>>)
        ELSE Result(after, save(after), <<TRUE, awarded.info>>)

\* ------------------------------------------------------- the menu commands

\* A line typed at a prompt: nothing, the digits of the integer n (with its
\* sign), or text that int() rejects.
BlankLine == [kind |-> "blank", n |-> 0]

Number(n) == [kind |-> "int", n |-> n]

TextLine == [kind |-> "text", n |-> 0]

\* A line typed at a date prompt: nothing, digits in the form YYYY-MM-DD, or
\* other text.
NoDate == [kind |-> "blank", d |-> <<1, 1, 1>>]

DateLine(d) == [kind |-> "date", d |-> d]

\* str.strip() on the titles typed.
Strip(s) ==
    CASE s = " " -> ""
      [] s = " c " -> "c"
      [] OTHER -> s

DaysIn(y, m) ==
    IF m = 2
    THEN IF (y % 4 = 0 /\ y % 100 # 0) \/ y % 400 = 0 THEN 29 ELSE 28
    ELSE IF m \in {4, 6, 9, 11} THEN 30 ELSE 31

\* datetime.date.fromisoformat(s) returns: s names a day of the calendar.
IsDate(d) ==
    /\ d[1] \in 1..9999
    /\ d[2] \in 1..12
    /\ d[3] \in 1..DaysIn(d[1], d[2])

\* prompt_date on the lines typed, the last of which it accepts.
RECURSIVE prompt_date(_)
prompt_date(lines) ==
    LET s == Head(lines)
    IN  IF s.kind = "blank" THEN None
        ELSE IF s.kind = "date" /\ IsDate(s.d) THEN s.d
        ELSE prompt_date(Tail(lines))

\* prompt_priority on the lines typed, the last of which it accepts.
RECURSIVE prompt_priority(_)
prompt_priority(lines) ==
    LET s == Head(lines)
        p == IF s.kind = "blank" THEN 3 ELSE s.n
    IN  IF s.kind = "text" \/ p < 1 \/ p > 5
        THEN prompt_priority(Tail(lines))
        ELSE p

cmd_add(self, file, typed, now) ==
    LET title == Strip(typed.title)
        category == IF Strip(typed.category) = "" THEN "General"
                    ELSE Strip(typed.category)
        due == prompt_date(typed.due)
        priority == prompt_priority(typed.priority)
        notes == Strip(typed.notes)
        r == add_task(self, file, title, category, due, priority, notes, now)
    IN  IF title = "" THEN Result(self, file, None)
        ELSE Result(r.self, r.file, None)

cmd_quick_add(self, file, typed, now) ==
    LET title == Strip(typed.title)
        \* the defaults of add_task's parameters
        r == add_task(self, file, title, "General", None, 3, "", now)
    IN  IF title = "" THEN Result(self, file, None)
        ELSE Result(r.self, r.file, None)

\* cmd_edit; the ValueError of int() on the priority typed leaves cmd_edit
\* and main_menu before edit_task is called.
cmd_edit(self, file, id, typed) ==
    LET tid == id.n
        found == Lookup(self, tid)
        t == found[1]
        new_title == IF Strip(typed.title) = "" THEN t.title ELSE Strip(typed.title)
        new_category == IF Strip(typed.category) = "" THEN t.category
                        ELSE Strip(typed.category)
        due == prompt_date(typed.due)
        new_due == IF due = None THEN t.due_date ELSE due
        new_priority == IF typed.priority.kind = "blank" THEN t.priority
                        ELSE typed.priority.n
        new_notes == IF Strip(typed.notes) = "" THEN t.notes ELSE Strip(typed.notes)
        r == edit_task(self, file, tid,
                       [title |-> <<new_title>>, category |-> <<new_category>>,
                        due_date |-> IF new_due = None THEN None ELSE <<new_due>>,
                        priority |-> <<new_priority>>, notes |-> <<new_notes>>])
    IN  IF id.kind # "int" THEN Result(self, file, None)
        ELSE IF found = None THEN Result(self, file, None)
        ELSE IF typed.priority.kind = "text" THEN Result(self, file, <<"ValueError">>)
        ELSE Result(r.self, r.file, None)

\* -------------------------------------------------------------- the inputs

\* datetime.datetime.now().isoformat() as the caller's clock reads it.
Stamps == {<<1>>, <<2>>}

DefaultInput ==
    [title |-> "a", category |-> "General", due_date |-> None, priority |-> 3,
     notes |-> ""]

\* The arguments of add_task: the defaults of cmd_quick_add, and tasks as
\* cmd_add collects them.
AddInputs ==
    {DefaultInput,
     [title |-> "b", category |-> "Study", due_date |-> <<2025, 3, 5>>,
      priority |-> 1, notes |-> "n"]}

ListedInputs ==
    AddInputs \cup
    {[title |-> "c", category |-> "General", due_date |-> <<2025, 1, 10>>,
      priority |-> 5, notes |-> ""]}

\* The five fields as cmd_edit passes them.
MenuEdit ==
    [title |-> <<"d">>, category |-> <<"Study">>, due_date |-> <<<<2025, 2, 1>>>>,
     priority |-> <<2>>, notes |-> <<"m">>]

\* The keyword arguments of edit_task: the fields of cmd_edit, some fields
\* with None among them, the other attributes of a Task, and a key that is
\* no attribute.
EditInputs ==
    {MenuEdit,
     [priority |-> <<4>>, due_date |-> None, title |-> None, notes |-> <<"m">>],
     [id |-> <<0>>, bogus |-> <<"x">>],
     [created_at |-> <<<<0>>>>],
     [completed_at |-> <<<<0>>>>]}

SortInputs == {"priority", "due", "id"}

\* What the user types into cmd_add: a title of blanks; every prompt left at
\* its default; a date and priorities that are rejected before one is taken.
TypedAdds ==
    {[title |-> " ", category |-> "", due |-> <<NoDate>>,
      priority |-> <<BlankLine>>, notes |-> ""],
     [title |-> "a", category |-> "", due |-> <<NoDate>>,
      priority |-> <<BlankLine>>, notes |-> ""],
     [title |-> "b", category |-> "Study",
      due |-> <<DateLine(<<2025, 2, 30>>), DateLine(<<2025, 3, 5>>)>>,
      priority |-> <<Number(0), TextLine, Number(6), Number(5)>>,
      notes |-> "n"]}

TypedQuick == {[title |-> " "], [title |-> " c "]}

\* What the user types at the prompts of cmd_edit after the line id.
TypedEdits ==
    {[title |-> "", category |-> "", due |-> <<NoDate>>,
      priority |-> prio, notes |-> ""] :
        prio \in {BlankLine, TextLine, Number(4), Number(9), Number(0)}}
    \cup {[title |-> "d", category |-> "Study",
           due |-> <<DateLine(<<2025, 13, 1>>), DateLine(<<2024, 2, 29>>)>>,
           priority |-> Number(1), notes |-> "m"]}

\* Keywords of search_tasks: one in the default category in other case, one
\* in the category and the notes of an edited task, one in no task.
SearchInputs == {"ERA", "stud", "M", "z"}

\* What load() can find in place of a document it wrote: no file, or a file
\* json.load rejects.
DamagedKinds == {"missing", "truncated"}

\* ------------------------------------------------------------- the machine

VARIABLES
    planner,      \* the Planner object
    file,         \* the content of DATA_FILE
    ret,          \* the last call: its name, its arguments, the value returned
    added,        \* add_task calls of this session
    edited,       \* successful edit_task calls of this session
    issued,       \* the ids add_task has returned since the fresh default state
    removed,      \* the ids delete_task has removed since then
    completions,  \* the successful complete_task calls since then
    peer          \* a second Planner on the same DATA_FILE, at rest, and
                  \* whether it was the last to write the file

vars == <<planner, file, ret, added, edited, issued, removed, completions, peer>>

\* An earlier session on a fresh DATA_FILE that added and completed n
\* default tasks, one after the other.
RECURSIVE Earlier(_)
Earlier(n) ==
    IF n = 0 THEN load(NewPlanner, MissingFile, <<1>>)
    ELSE LET before == Earlier(n - 1)
             a == add_task(before.self, before.file, DefaultInput.title,
                           DefaultInput.category, DefaultInput.due_date,
                           DefaultInput.priority, DefaultInput.notes, <<1>>)
         IN  \* the session so far has issued the ids 1 .. n - 1
             CASE before.self.next_id = n ->
                     complete_task(a.self, a.file, a.ret[1], <<1>>)

\* The sessions before this one stopped one completion short of a milestone.
EarlierSessions == {m[1] - 1 : m \in milestones}

\* Whether the call op(args) on the Planner, with outcome r, has called
\* save(), directly or through _create_default_file.
CallsSave(op, args, r) ==
    CASE op \in {"add", "delete", "save"} -> TRUE
      [] op \in {"edit", "complete"} -> r.ret[1]
      [] op = "load" -> file.kind # "json"
      [] op \in {"cmd_add", "cmd_quick_add"} -> Strip(args[1].title) # ""
      [] op = "cmd_edit" -> /\ args[1].kind = "int"
                            /\ Lookup(planner, args[1].n) # None
                            /\ args[2].priority.kind # "text"
      [] OTHER -> FALSE

Call(op, args, r) ==
    /\ planner' = r.self
    /\ file' = r.file
    /\ ret' = [op |-> op, args |-> args, value |-> r.ret]
    /\ peer' = [peer EXCEPT !.wrote = IF CallsSave(op, args, r) THEN FALSE ELSE @]

\* Planner(): the fields are set and load() reads DATA_FILE, which is
\* missing (n = 0) or was left by an earlier session.
Construct(sessions) ==
    \E n \in sessions :
        LET f == IF n = 0 THEN MissingFile ELSE Earlier(n).file
            r == load(NewPlanner, f, <<1>>)
        IN  /\ planner = r.self
            /\ file = r.file
            /\ ret = [op |-> "init", args |-> <<>>, value |-> None]
            /\ added = 0
            /\ edited = 0
            /\ issued = 1..n
            /\ removed = {}
            /\ completions = n
            /\ peer = [self |-> load(NewPlanner, r.file, <<1>>).self,
                       wrote |-> FALSE]

\* The task ids a caller passes: the ids this session has issued, the last
\* id of the session before it, and one not yet issued.
IdArgs == {i \in 1..planner.next_id : i + added + 1 >= planner.next_id}

Add(inputs, stamps, most) ==
    /\ added < most
    /\ \E a \in inputs, now \in stamps :
        LET r == add_task(planner, file, a.title, a.category, a.due_date,
                          a.priority, a.notes, now)
        IN  /\ Call("add", <<a>>, r)
            /\ issued' = issued \cup {r.ret[1]}
    /\ added' = added + 1
    /\ UNCHANGED <<edited, removed, completions>>

View ==
    /\ \E show_completed \in BOOLEAN, sort_by \in SortInputs :
        Call("view", <<show_completed, sort_by>>,
             view_tasks(planner, file, show_completed, sort_by))
    /\ UNCHANGED <<added, edited, issued, removed, completions>>

GetTask ==
    /\ \E task_id \in IdArgs :
        Call("get", <<task_id>>, get_task(planner, file, task_id))
    /\ UNCHANGED <<added, edited, issued, removed, completions>>

Search ==
    /\ \E keyword \in SearchInputs :
        Call("search", <<keyword>>, search_tasks(planner, file, keyword))
    /\ UNCHANGED <<added, edited, issued, removed, completions>>

Delete ==
    /\ \E task_id \in IdArgs :
        LET r == delete_task(planner, file, task_id)
        IN  /\ Call("delete", <<task_id>>, r)
            /\ removed' = IF r.ret # None THEN removed \cup {task_id} ELSE removed
    /\ UNCHANGED <<added, edited, issued, completions>>

Edit(inputs) ==
    /\ edited < MaxEdits
    /\ \E task_id \in IdArgs, kwargs \in inputs :
        LET r == edit_task(planner, file, task_id, kwargs)
        IN  /\ Call("edit", <<task_id, kwargs>>, r)
            /\ edited' = IF r.ret[1] THEN edited + 1 ELSE edited
    /\ UNCHANGED <<added, issued, removed, completions>>

Complete(stamps) ==
    /\ \E task_id \in IdArgs, now \in stamps :
        LET r == complete_task(planner, file, task_id, now)
        IN  /\ Call("complete", <<task_id>>, r)
            /\ completions' = IF r.ret[1] THEN completions + 1 ELSE completions
    /\ UNCHANGED <<added, edited, issued, removed>>

\* planner.save(), as main_menu calls it on exit.
Save ==
    /\ Call("save", <<>>, Result(planner, save(planner), None))
    /\ UNCHANGED <<added, edited, issued, removed, completions>>

\* load() on the file as it stands: the next session's Planner(). When
\* _create_default_file ran, the counts since the fresh default state start
\* again.
Load ==
    /\ \E now \in Stamps : Call("load", <<>>, load(planner, file, now))
    /\ issued' = IF file.kind = "json" THEN issued ELSE {}
    /\ removed' = IF file.kind = "json" THEN removed ELSE {}
    /\ completions' = IF file.kind = "json" THEN completions ELSE 0
    /\ UNCHANGED <<added, edited>>

\* DATA_FILE between two calls of load(): removed, so that os.path.exists
\* is false, or cut short, so that json.load raises.
Damage ==
    /\ file.kind = "json"
    /\ \E kind \in DamagedKinds :
        file' = IF kind = "missing" THEN MissingFile
                ELSE [kind |-> kind, data |-> file.data]
    /\ ret' = [op |-> "damage", args |-> <<>>, value |-> None]
    /\ UNCHANGED <<planner, added, edited, issued, removed, completions, peer>>

\* The other process runs next: its Planner is the one the calls act on.
Switch ==
    /\ planner' = peer.self
    /\ peer' = [self |-> planner, wrote |-> ~peer.wrote]
    /\ ret' = [op |-> "switch", args |-> <<>>, value |-> None]
    /\ UNCHANGED <<file, added, edited, issued, removed, completions>>

\* A session on the file an earlier session left: tasks are added with the
\* defaults, edited, completed and deleted, the file saved and read again.
Init == Construct(EarlierSessions)

Next ==
    \/ Add({DefaultInput}, {<<1>>}, MaxAdds)
    \/ Delete
    \/ Edit({MenuEdit})
    \/ Complete({<<2>>})
    \/ Save
    \/ Load

Spec == Init /\ [][Next]_vars

\* A first session, whose tasks and edits take every input.
InitFresh == Construct({0})

NextEdit ==
    \/ Add(AddInputs, {<<1>>}, MaxAdds)
    \/ Delete
    \/ Edit(EditInputs)
    \/ Complete({<<1>>})
    \/ Save
    \/ Load

SpecEdit == InitFresh /\ [][NextEdit]_vars

\* A first session that lists its tasks.
NextView ==
    \/ Add(ListedInputs, {<<1>>}, MaxListed)
    \/ Complete({<<1>>})
    \/ View
    \/ GetTask

SpecView == InitFresh /\ [][NextView]_vars

\* The sessions before this one stopped one completion short of a level
\* that has an achievement: level 2 and level 5.
LevelSessions ==
    {((lv - 1) * XP_TO_LEVEL) \div XP_PER_TASK - 1 : lv \in {2, 5}}

InitLevels == Construct(LevelSessions)

\* The session before this one stopped one completion short of level 2.
InitSession == Construct({XP_TO_LEVEL \div XP_PER_TASK - 1})

\* One session of every engine operation, from construction to exit.
NextSession ==
    \/ Add({DefaultInput}, {<<1>>}, MaxAdds)
    \/ GetTask
    \/ View
    \/ Search
    \/ Edit({MenuEdit})
    \/ Delete
    \/ Complete({<<2>>})
    \/ Save

SpecSession == InitSession /\ [][NextSession]_vars

\* The session of Next on the files of LevelSessions.
SpecLevels == InitLevels /\ [][Next]_vars

\* Two processes that constructed their Planner on the same DATA_FILE and
\* take turns with the operations that change it.
NextTwo ==
    \/ Add(AddInputs, {<<1>>}, MaxAdds)
    \/ Delete
    \/ Edit(EditInputs)
    \/ Complete({<<1>>})
    \/ Save
    \/ Switch

SpecTwo == InitFresh /\ [][NextTwo]_vars

CmdAdd ==
    /\ added < MaxAdds
    /\ \E typed \in TypedAdds :
        LET r == cmd_add(planner, file, typed, <<1>>)
        IN  /\ Call("cmd_add", <<typed>>, r)
            /\ added' = IF r.self = planner THEN added ELSE added + 1
            /\ issued' = IF r.self = planner THEN issued
                         ELSE issued \cup {planner.next_id}
    /\ UNCHANGED <<edited, removed, completions>>

CmdQuickAdd ==
    /\ added < MaxAdds
    /\ \E typed \in TypedQuick :
        LET r == cmd_quick_add(planner, file, typed, <<1>>)
        IN  /\ Call("cmd_quick_add", <<typed>>, r)
            /\ added' = IF r.self = planner THEN added ELSE added + 1
            /\ issued' = IF r.self = planner THEN issued
                         ELSE issued \cup {planner.next_id}
    /\ UNCHANGED <<edited, removed, completions>>

CmdEdit ==
    /\ edited < MaxEdits
    /\ \E line \in {TextLine} \cup {Number(i) : i \in IdArgs}, typed \in TypedEdits :
        LET r == cmd_edit(planner, file, line, typed)
        IN  /\ Call("cmd_edit", <<line, typed>>, r)
            /\ edited' = IF r.self = planner THEN edited ELSE edited + 1
    /\ UNCHANGED <<added, issued, removed, completions>>

\* A first session at the menu: tasks are added and edited by what the user
\* types, and completed.
NextMenu ==
    \/ CmdAdd
    \/ CmdQuickAdd
    \/ CmdEdit
    \/ Complete({<<1>>})

SpecMenu == InitFresh /\ [][NextMenu]_vars

\* A first session whose DATA_FILE is removed or cut short and read again.
NextLoad ==
    \/ Add(AddInputs, {<<1>>}, MaxAdds)
    \/ Complete({<<1>>})
    \/ Delete
    \/ Damage
    \/ Load

SpecLoad == InitFresh /\ [][NextLoad]_vars

\* ---------------------------------------------------------------- claims

\* The completed count: the number of tasks in the completed collection.
CompletedCount == Len(planner.completed)

Succeeded(r) == r.value # None /\ r.value[1] = TRUE

\* C1: the id an add_task call returns is greater than every id add_task has
\* returned before it since the fresh default state, so no id is returned
\* twice, also after the task that had it was deleted and across save/load.
C1_AddIdsIncrease ==
    [][ret'.op = "add" => \A i \in issued : ret'.value[1] > i]_vars

\* C1 witness: add_task has returned an id after a task with a smaller id
\* was deleted.
C1_Witness ==
    /\ ret.op = "add"
    /\ \E i \in removed : i < ret.value[1]

\* C2: complete_task with an id that is not in pending (never issued,
\* deleted, or already completed) returns the failure result and leaves the
\* Planner and DATA_FILE as they were.
C2_CompleteNotPending ==
    [][ret'.op = "complete" /\ ret'.args[1] \notin Keys(planner.tasks)
        => /\ ret'.value = <<FALSE, "Task not found or already completed.">>
           /\ planner'.xp = planner.xp
           /\ planner'.level = planner.level
           /\ planner'.tasks = planner.tasks
           /\ planner'.completed = planner.completed
           /\ planner'.achievements = planner.achievements
           /\ planner'.next_id = planner.next_id
           /\ file' = file]_vars

\* C2 witness: complete_task has failed on an id that is in completed, with
\* XP already earned.
C2_Witness ==
    /\ ret.op = "complete"
    /\ ret.value[1] = FALSE
    /\ ret.args[1] \in Keys(planner.completed)
    /\ planner.xp > 0

\* C3: after a successful complete_task the task is in completed with
\* completed_at set and not in pending, xp is 20 more than before, level is
\* floor(xp / 100) + 1 of the new xp, and every other task and next_id are
\* as before.
C3_CompleteEffect ==
    [][ret'.op = "complete" /\ Succeeded(ret')
        => LET id == ret'.args[1]
           IN  /\ id \in Keys(planner'.completed)
               /\ Get(planner'.completed, id).completed_at # None
               /\ id \notin Keys(planner'.tasks)
               /\ planner'.xp = planner.xp + 20
               /\ planner'.level = (planner'.xp \div 100) + 1
               /\ planner'.next_id = planner.next_id
               /\ Keys(planner'.tasks) = Keys(planner.tasks) \ {id}
               /\ Keys(planner'.completed) = Keys(planner.completed) \cup {id}
               /\ \A k \in (Keys(planner.tasks) \cup Keys(planner.completed)) \ {id} :
                      Lookup(planner', k) = Lookup(planner, k)]_vars

\* C3 witness: a completion has raised the level, with other tasks held.
C3_Witness ==
    /\ ret.op = "complete"
    /\ Succeeded(ret)
    /\ ret.value[2].leveled_up
    /\ planner.tasks # <<>>

\* C4 as stated: each completed-count achievement is present exactly when
\* the completed count meets its threshold.
C4_PresentIffCount ==
    \A m \in milestones : (m[2] \in planner.achievements) <=> (CompletedCount >= m[1])

\* C4 as amended: each completed-count achievement is present whenever the
\* completed count meets its threshold, and no achievement is ever removed
\* (so it stays when deletes bring the count below the threshold again).
C4_PresentWhenCount ==
    /\ [](\A m \in milestones : CompletedCount >= m[1] => m[2] \in planner.achievements)
    /\ [][planner.achievements \subseteq planner'.achievements]_vars

\* C4 witness: the last milestone was reached and a completed task deleted
\* after it.
C4_Witness ==
    /\ "Legendary Studier" \in planner.achievements
    /\ CompletedCount < 25
    /\ ret.op = "delete"

\* C5 as stated: when the k-th successful complete_task since the fresh
\* default state returns, the achievement of milestone k is present.
C5_KthCompletion ==
    (ret.op = "complete" /\ Succeeded(ret))
        => \A m \in milestones : completions = m[1] => m[2] \in planner.achievements

\* C5 as amended: when a successful complete_task returns with k tasks in
\* the completed collection, the achievement of milestone k is present; the
\* k-th successful completion brings it when no completed task was deleted
\* before it, and the collection never holds more tasks than were completed.
C5_CompletionReachesCount ==
    [][ret'.op = "complete" /\ Succeeded(ret')
        => /\ Len(planner'.completed) <= completions'
           /\ \A m \in milestones :
                /\ Len(planner'.completed) >= m[1] => m[2] \in planner'.achievements
                /\ (completions' = m[1] /\ Len(planner'.completed) = completions')
                       => m[2] \in planner'.achievements]_vars

\* C5 witness: the 25th successful completion has returned with its
\* achievement, after other calls of this session.
C5_Witness ==
    /\ ret.op = "complete"
    /\ Succeeded(ret)
    /\ completions = 25
    /\ "Legendary Studier" \in planner.achievements
    /\ edited > 0

\* Two Planner states with the same next_id, xp, level and achievements, the
\* same ids in pending and in completed, and the same fields in every task.
Equivalent(p, q) ==
    /\ p.next_id = q.next_id
    /\ p.xp = q.xp
    /\ p.level = q.level
    /\ p.achievements = q.achievements
    /\ Keys(p.tasks) = Keys(q.tasks)
    /\ Keys(p.completed) = Keys(q.completed)
    /\ \A k \in Keys(p.tasks) : Get(p.tasks, k) = Get(q.tasks, k)
    /\ \A k \in Keys(p.completed) : Get(p.completed, k) = Get(q.completed, k)

\* C6 as stated: load() of the file that save() wrote of the current state
\* yields an equivalent state.
C6_RoundTrip ==
    [][ret'.op = "load" /\ file = save(planner) => Equivalent(planner, planner')]_vars

\* C7 as stated: after every operation DATA_FILE holds the serialization of
\* the Planner as it is in memory.
C7_WriteThrough == file = save(planner)

MutableFields == {"title", "category", "due_date", "priority", "notes"}

\* C8 as stated: a successful edit_task gives each of title, category,
\* due_date, priority and notes the value passed when it is not None and
\* leaves it otherwise; whatever keys are passed, the task's id, created_at
\* and completed_at, the collection that holds it, every other task,
\* next_id, xp, level and achievements are as before.
C8_EditFrame ==
    [][ret'.op = "edit" /\ Succeeded(ret')
        => LET id == ret'.args[1]
               kwargs == ret'.args[2]
               old == Lookup(planner, id)[1]
               new == Lookup(planner', id)[1]
           IN  /\ \A f \in MutableFields :
                    new[f] = IF f \in DOMAIN kwargs /\ kwargs[f] # None
                             THEN kwargs[f][1] ELSE old[f]
               /\ new.id = old.id
               /\ new.created_at = old.created_at
               /\ new.completed_at = old.completed_at
               /\ Keys(planner'.tasks) = Keys(planner.tasks)
               /\ Keys(planner'.completed) = Keys(planner.completed)
               /\ \A k \in (Keys(planner.tasks) \cup Keys(planner.completed)) \ {id} :
                      Lookup(planner', k) = Lookup(planner, k)
               /\ planner'.next_id = planner.next_id
               /\ planner'.xp = planner.xp
               /\ planner'.level = planner.level
               /\ planner'.achievements = planner.achievements]_vars

\* The entries of a dict have distinct keys.
UniqueKeys(d) == Cardinality(Keys(d)) = Len(d)

\* C9: no id is a key of both pending and completed, and every id that
\* add_task issued and delete_task has not removed is a key of exactly one
\* of them.
C9_ExactlyOneCollection ==
    /\ Keys(planner.tasks) \cap Keys(planner.completed) = {}
    /\ UniqueKeys(planner.tasks)
    /\ UniqueKeys(planner.completed)
    /\ \A i \in issued \ removed :
          (i \in Keys(planner.tasks)) # (i \in Keys(planner.completed))

\* C9 witness: tasks are held in both collections after a delete and a
\* completion in this session.
C9_Witness ==
    /\ planner.tasks # <<>>
    /\ planner.completed # <<>>
    /\ removed # {}
    /\ ret.op = "complete"
    /\ Succeeded(ret)

\* The order of two due dates 'YYYY-MM-DD'.
DateLeq(a, b) ==
    \/ a[1] < b[1]
    \/ a[1] = b[1] /\ a[2] < b[2]
    \/ a[1] = b[1] /\ a[2] = b[2] /\ a[3] <= b[3]

\* C10: view_tasks returns the (id, task) pairs of the collection selected,
\* each once; sorted by "priority" the priorities do not decrease; sorted by
\* "due" the tasks with a due date come before those without one, in
\* ascending order of date; sorted otherwise the ids ascend.
C10_ViewOrder ==
    ret.op = "view"
        => LET res == ret.value
               coll == IF ret.args[1] THEN planner.completed ELSE planner.tasks
               by == ret.args[2]
           IN  /\ Len(res) = Len(coll)
               /\ {res[i] : i \in 1..Len(res)} = {coll[i] : i \in 1..Len(coll)}
               /\ \A i, j \in 1..Len(res) : i < j =>
                    /\ res[i] # res[j]
                    /\ by = "priority" => res[i].v.priority <= res[j].v.priority
                    /\ by = "due" =>
                         /\ res[j].v.due_date # None => res[i].v.due_date # None
                         /\ (res[i].v.due_date # None /\ res[j].v.due_date # None)
                                => DateLeq(res[i].v.due_date, res[j].v.due_date)
                    /\ by \notin {"priority", "due"} => res[i].k < res[j].k

\* C10 witness: a listing by due date of three tasks, with and without a
\* date, that the sort has reordered.
C10_Witness ==
    /\ ret.op = "view"
    /\ ret.args[2] = "due"
    /\ Len(ret.value) >= 3
    /\ \E i, j \in 1..Len(ret.value) :
          ret.value[i].v.due_date # None /\ ret.value[j].v.due_date = None
    /\ ret.value # (IF ret.args[1] THEN planner.completed ELSE planner.tasks)

\* C11: load() on a DATA_FILE that is missing or that json.load rejects
\* returns normally, leaves the Planner in the fresh default state whatever
\* its fields held before, and leaves that default state in DATA_FILE.
C11_LoadFallsBack ==
    [][ret'.op = "load" /\ file.kind # "json"
        => /\ ret'.value = None
           /\ planner' = NewPlanner
           /\ planner'.next_id = 1 /\ planner'.xp = 0 /\ planner'.level = 1
           /\ planner'.tasks = <<>> /\ planner'.completed = <<>>
           /\ planner'.achievements = {}
           /\ file' = save(NewPlanner)]_vars

\* load() has replaced a session's tasks, XP and achievements by the default
\* state.
C11_Witness ==
    /\ ret.op = "load"
    /\ added > 0
    /\ planner = NewPlanner
    /\ file = save(NewPlanner)
\* The entries of dict d other than the one under key, in their order.
Others(d, key) == SelectSeq(d, LAMBDA e : e.k # key)

\* C12: delete_task(id) with an id in neither collection returns None and
\* leaves every field of the Planner as it was; with an id that is held it
\* returns the task removed and takes it out of the one collection holding
\* it, leaving every other task, next_id, xp, level and the achievements as
\* they were; in both cases DATA_FILE holds the resulting state afterwards.
C12_DeleteFrame ==
    [][ret'.op = "delete"
        => LET id == ret'.args[1]
               pending == id \in Keys(planner.tasks)
               done == id \in Keys(planner.completed)
           IN  /\ file' = save(planner')
               /\ planner'.next_id = planner.next_id
               /\ planner'.xp = planner.xp
               /\ planner'.level = planner.level
               /\ planner'.achievements = planner.achievements
               /\ planner'.tasks = Others(planner.tasks, id)
               /\ planner'.completed =
                      IF pending THEN planner.completed
                      ELSE Others(planner.completed, id)
               /\ ~pending /\ ~done => ret'.value = None /\ planner' = planner
               /\ pending => ret'.value = <<Get(planner.tasks, id)>>
               /\ ~pending /\ done
                      => ret'.value = <<Get(planner.completed, id)>>]_vars

\* delete_task has removed a completed task and left another task behind.
C12_Witness ==
    /\ ret.op = "delete"
    /\ ret.value # None
    /\ ret.value[1].completed_at # None
    /\ completions > 0
    /\ planner.completed = <<>>
    /\ planner.tasks # <<>>
\* C13: when tasks are created and changed only by cmd_add, cmd_quick_add and
\* cmd_edit, every task in pending or completed has a priority in 1..5.
C13_PriorityInRange ==
    \A i \in 1..Len(planner.tasks \o planner.completed) :
        (planner.tasks \o planner.completed)[i].v.priority \in 1..5
\* The engine operations of a session.
SessionOps == {"add", "get", "view", "search", "edit", "delete", "complete", "save"}

\* C14: in every step of an engine operation of a session (add, get, list,
\* search, edit, delete, complete, save) xp does not decrease, level does
\* not decrease and no achievement is removed, and xp changes only in a
\* complete_task call that succeeds.
C14_Monotone ==
    [][ret'.op \in SessionOps
        => /\ planner'.xp >= planner.xp
           /\ planner'.level >= planner.level
           /\ planner.achievements \subseteq planner'.achievements
           /\ planner'.xp # planner.xp
                  => ret'.op = "complete" /\ Succeeded(ret')]_vars

\* A completed task was deleted after level 2 was gained in this session,
\* and the XP it earned is still there.
C14_Witness ==
    /\ ret.op = "delete"
    /\ ret.value # None
    /\ ret.value[1].completed_at # None
    /\ completions > CompletedCount
    /\ planner.xp = XP_PER_TASK * completions
    /\ planner.level > 1
\* C15: an id in completed is not in pending after any engine operation, and
\* leaves completed only by a delete_task call on that id; an id that was
\* issued and is held no longer never comes back into pending.
C15_CompletedTerminal ==
    [][/\ \A id \in Keys(planner.completed) :
            /\ id \notin Keys(planner'.tasks)
            /\ id \notin Keys(planner'.completed)
                   => ret'.op = "delete" /\ ret'.args[1] = id
       /\ \A id \in issued \ (Keys(planner.tasks) \cup Keys(planner.completed)) :
            id \notin Keys(planner'.tasks)]_vars

\* A completed task was edited and is still in completed, and nothing is
\* pending.
C15_Witness ==
    /\ ret.op = "edit"
    /\ Succeeded(ret)
    /\ ret.args[1] \in Keys(planner.completed)
    /\ planner.tasks = <<>>
\* C16: in every state reached from the fresh default state by engine
\* operations, also after save and load, xp is 20 times the number of
\* complete_task calls that succeeded and level is floor(xp / 100) + 1; so
\* after five tasks added and completed xp is 100 and level is 2.
C16_XpAndLevel ==
    /\ planner.xp = XP_PER_TASK * completions
    /\ planner.level = (planner.xp \div XP_TO_LEVEL) + 1
    /\ completions = 5 => planner.xp = 100 /\ planner.level = 2

\* Five tasks were completed and the state was read back from DATA_FILE.
C16_Witness ==
    /\ ret.op = "load"
    /\ completions = 5
    /\ planner.xp = 100
    /\ planner.level = 2
\* C17: the dict a successful complete_task call returns has prev_xp equal to
\* xp before the call and gained equal to 20, which is xp after the call
\* minus prev_xp, and leveled_up true exactly when level after the call is
\* greater than level before it; counted from the fresh default state that
\* is on every fifth successful completion.
C17_CompleteResult ==
    [][ret'.op = "complete" /\ Succeeded(ret')
        => LET info == ret'.value[2]
           IN  /\ info.prev_xp = planner.xp
               /\ info.gained = 20
               /\ info.gained = planner'.xp - info.prev_xp
               /\ info.leveled_up <=> planner'.level > planner.level
               /\ info.leveled_up <=> completions' % 5 = 0]_vars

\* The tenth completion has returned leveled_up, with 180 XP before it.
C17_Witness ==
    /\ ret.op = "complete"
    /\ Succeeded(ret)
    /\ ret.value[2].leveled_up
    /\ ret.value[2].prev_xp = 180
    /\ completions = 10
\* C18: in every reachable state "Level 2 Achieved" is among the achievements
\* exactly when level >= 2 and "Level 5 Achieved" exactly when level >= 5;
\* the complete_task call that raises the level records the achievement.
C18_LevelAchievements ==
    /\ "Level 2 Achieved" \in planner.achievements <=> planner.level >= 2
    /\ "Level 5 Achieved" \in planner.achievements <=> planner.level >= 5

\* The completion that raised the level to 5 has recorded its achievement.
C18_Witness ==
    /\ ret.op = "complete"
    /\ Succeeded(ret)
    /\ ret.value[2].leveled_up
    /\ planner.level = 5
    /\ "Level 5 Achieved" \in planner.achievements
\* C19: with two Planners on the same DATA_FILE taking turns, the file
\* always holds the whole state of the Planner that called save() last and
\* nothing of the other; so a task the other Planner added can be missing
\* from the file, and both Planners can return the same id from add_task.
C19_LastWriterWins ==
    file = save(IF peer.wrote THEN peer.self ELSE planner)

\* Both Planners have returned the same id for different tasks, and the file
\* holds the task of the one that wrote last and not the other's.
C19_Witness ==
    /\ ret.op = "add"
    /\ ~peer.wrote
    /\ \E k \in Keys(planner.tasks) \cap Keys(peer.self.tasks) :
          /\ ret.value = <<k>>
          /\ Get(planner.tasks, k).title # Get(peer.self.tasks, k).title
          /\ Get(file.data.tasks, ToString(k)) = to_dict(Get(planner.tasks, k))
    /\ planner.next_id = peer.self.next_id
====
